---- MODULE Spec2Model ----
(***************************************************************************)
(* Model of src/app.py: the Gemini request orchestrator optimize_prompt    *)
(* (input checks, bounded retry loop with exponential backoff, HTTP status *)
(* classification, response extraction and the except clauses).            *)
(*                                                                         *)
(* Library behaviour assumed (requests >= 2.27 without simplejson):        *)
(*   - Response.ok is True exactly when the status is below 400;           *)
(*   - Response.json() on a body that is not JSON raises                   *)
(*     requests.exceptions.JSONDecodeError, which is both a                *)
(*     json.JSONDecodeError and a requests.exceptions.RequestException;    *)
(*   - requests.exceptions.Timeout is a RequestException.                  *)
(* The st.* display calls have no effect on the function's control flow.   *)
(***************************************************************************)
EXTENDS Integers, Sequences, FiniteSets, TLC

\* ------------------------------------------------------------------ bounds

\* Longest string (user text, generated text) the model enumerates.
MaxLen == 2

\* Characters of the enumerated strings: one whitespace, one non-whitespace.
Chars == {" ", "a"}

\* ------------------------------------------------------- program constants

MAX_RETRIES == 3

\* ------------------------------------------------------------ Python values
\* Every value is a record [t, v]: t is the Python type, v the payload.
\* A str is a sequence of characters, a list a sequence of values, a dict a
\* sequence of <<key, value>> pairs, a raised exception carries its class.

None == [t |-> "none", v |-> <<>>]
Str(s) == [t |-> "str", v |-> s]
Num(n) == [t |-> "num", v |-> n]
List(items) == [t |-> "list", v |-> items]
Dict(pairs) == [t |-> "dict", v |-> pairs]
Raise(cls) == [t |-> "exc", v |-> cls]
\* A response body that is not JSON (an HTML error page, an empty body).
RawText == [t |-> "raw", v |-> <<>>]

IsExc(x) == x.t = "exc"

\* Variant: only None counts as missing (`is None` in place of `not`).
Falsy_NoneOnly(x) == x.t = "none"

\* Variant: only the empty str counts as missing (`== ""` in place of `not`).
Falsy_EmptyStrOnly(x) == x.t = "str" /\ Len(x.v) = 0

\* Python truthiness of the values the function tests with `not`.
Falsy(x) ==
    \/ x.t = "none"
    \/ x.t \in {"str", "list", "dict"} /\ Len(x.v) = 0
    \/ x.t = "num" /\ x.v = 0

\* str.strip(): drop leading and trailing whitespace.
RECURSIVE LStrip(_)
LStrip(s) == IF s # <<>> /\ Head(s) = " " THEN LStrip(Tail(s)) ELSE s

RECURSIVE RStrip(_)
RStrip(s) ==
    IF s # <<>> /\ s[Len(s)] = " " THEN RStrip(SubSeq(s, 1, Len(s) - 1)) ELSE s

strip(s) == RStrip(LStrip(s))

\* x.strip() on an arbitrary value: only str has the method.
PyStrip(x) ==
    IF IsExc(x) THEN x
    ELSE IF x.t = "str" THEN Str(strip(x.v))
    ELSE Raise("AttributeError")

\* d.get(key, default): only dict has the method.
PyGet(d, key, default) ==
    IF IsExc(d) THEN d
    ELSE IF d.t # "dict" THEN Raise("AttributeError")
    ELSE IF \E i \in 1..Len(d.v) : d.v[i][1] = key
         THEN d.v[CHOOSE i \in 1..Len(d.v) : d.v[i][1] = key][2]
         ELSE default

\* x[0]
PyIndex0(x) ==
    IF IsExc(x) THEN x
    ELSE IF x.t = "list"
         THEN IF Len(x.v) > 0 THEN x.v[1] ELSE Raise("IndexError")
    ELSE IF x.t = "str"
         THEN IF Len(x.v) > 0 THEN Str(<<x.v[1]>>) ELSE Raise("IndexError")
    ELSE IF x.t = "dict" THEN Raise("KeyError")
    ELSE Raise("TypeError")

\* ------------------------------------------------------ exception classes
\* Timeout, ConnectionError: raised by requests.post.  JSONDecodeError: raised
\* by Response.json().  RuntimeError stands for any non-requests exception
\* raised inside the try block.  The others are raised by the extraction.

ExceptionClasses ==
    {"Timeout", "ConnectionError", "JSONDecodeError", "AttributeError",
     "IndexError", "KeyError", "TypeError", "RuntimeError"}

IsTimeout(cls) == cls = "Timeout"
IsRequestException(cls) == cls \in {"Timeout", "ConnectionError", "JSONDecodeError"}
IsJSONDecodeError(cls) == cls = "JSONDecodeError"

\* Variant: the try statement without its final `except Exception` clause.
ExceptClause_NoCatchAll(cls) ==
    IF IsTimeout(cls) THEN "Timeout"
    ELSE IF IsRequestException(cls) THEN "RequestException"
    ELSE "none"

\* Variant: the retrying clause written for RequestException, the base class.
ExceptClause_RetryAnyRequestException(cls) ==
    IF IsRequestException(cls) THEN "Timeout"
    ELSE "Exception"

\* The except clause of the try statement that catches an exception of class
\* cls: the first one, in source order, whose class matches.
ExceptClause(cls) ==
    IF IsTimeout(cls) THEN "Timeout"
    ELSE IF IsRequestException(cls) THEN "RequestException"
    ELSE "Exception"

\* ------------------------------------------------------------------ results
\* The value optimize_prompt returns, by the kind of message it carries:
\*   InputMissing        "Please enter a basic prompt."
\*   CredentialMissing   "ERROR: API Key not configured. ..."
\*   HttpError           "API ERROR (<code>): <message>"
\*   MalformedResponse   "CRITICAL DEBUG: Content extraction failed. ..."
\*   EmptyContent        "WARNING: Empty response received. ..."
\*   Success             the generated text itself
\*   Timeout             "CRITICAL ERROR: Request timed out after 3 attempts. ..."
\*   NetworkError        "CRITICAL ERROR: Network connection failed. ..."
\*   UnexpectedException "CRITICAL ERROR: Unexpected exception occurred. ..."
\*   ExhaustedRetries    "ERROR: All optimization attempts failed ..."

Result(kind, code, text) == [kind |-> kind, code |-> code, text |-> text]

NoResult == Result("none", 0, None)

ResultKinds ==
    {"InputMissing", "CredentialMissing", "HttpError", "MalformedResponse",
     "EmptyContent", "Success", "Timeout", "NetworkError",
     "UnexpectedException", "ExhaustedRetries"}

\* ---------------------------------------------------------------- responses

Response(status, body) == [status |-> status, body |-> body]

NoResponse == Response(0, None)

\* requests.Response.ok: raise_for_status() raises only for 4xx and 5xx.
ok(r) == r.status < 400

\* requests.Response.json()
json(r) == IF r.body.t = "raw" THEN Raise("JSONDecodeError") ELSE r.body

\* Variant: the exponent one too high (`2 ** (attempt + 2)`).
wait_time_ShiftedExponent(attempt) == 2 ^ (attempt + 2)

\* Variant: the exponent taken from the 0-based loop variable (`2 ** attempt`).
wait_time_ZeroBased(attempt) == 2 ^ attempt

\* 2 ** (attempt + 1)
wait_time(attempt) == 2 ^ (attempt + 1)

DEFAULT_MESSAGE == Str(<<"Check console for details.">>)

\* ------------------------------------------------------------ input domains

\* All strings over Chars of length at most MaxLen.
Texts == UNION {[1..n -> Chars] : n \in 0..MaxLen}

\* basic_prompt: the text area's value, always a str.
Prompts == {Str(s) : s \in Texts}

\* api_key: what get_api_key returns, None or a str.
ApiKeys == {None, Str(<<>>), Str(<<" ">>), Str(<<"k">>)}

\* What the secret store and the environment can hold under GEMINI_API_KEY:
\* nothing, an empty value, a key.
SecretValues == {None, Str(<<>>), Str(<<"s">>)}
EnvValues == {None, Str(<<>>), Str(<<"e">>)}

\* Variant: the environment variable consulted first, the secret as fallback.
get_api_key_EnvFirst(secret, env) == IF Falsy(env) THEN secret ELSE env

\* Lines 26-35: the secret when it is truthy, else the environment variable.
\* st.secrets.get and os.environ.get give None for a key that is not set.
get_api_key(secret, env) == IF Falsy(secret) THEN env ELSE secret

\* HTTP statuses a response can carry: 2xx, 3xx, 4xx (with 429), 5xx.
Statuses == {200, 201, 304, 400, 403, 429, 500}

\* The success envelope and its truncations.
Part(text) == Dict(<< <<"text", text>> >>)
Content(parts) == Dict(<< <<"parts", parts>> >>)
Candidate(content) == Dict(<< <<"content", content>> >>)
Candidates(list) == Dict(<< <<"candidates", list>> >>)
Envelope(text) ==
    Candidates(List(<<Candidate(Content(List(<<Part(text)>>)))>>))

\* The error envelope {"error": ...}.
ErrorBody(err) == Dict(<< <<"error", err>> >>)

Bodies ==
    {RawText,                                      \* not JSON
     List(<<>>), Str(<<"a">>), None,               \* JSON, not an object
     Dict(<<>>),                                   \* no "candidates", no "error"
     Candidates(List(<<>>)),                       \* empty candidates list
     Candidates(List(<<Dict(<<>>)>>)),             \* candidate without "content"
     Candidates(List(<<Candidate(Dict(<<>>))>>)),  \* content without "parts"
     Candidates(List(<<Candidate(Content(List(<<>>)))>>)),           \* empty parts
     Candidates(List(<<Candidate(Content(List(<<Dict(<<>>)>>)))>>)), \* no "text"
     Envelope(None), Envelope(Num(1)),             \* text null, text not a str
     ErrorBody(Str(<<"a">>)), ErrorBody(None),     \* "error" not an object
     ErrorBody(Dict(<<>>)),                        \* "error" without "message"
     ErrorBody(Dict(<< <<"message", Str(<<"a">>)>> >>))}
    \cup {Envelope(Str(s)) : s \in Texts}

\* What one requests.post call can do: raise, or deliver a response.
Outcome(cls, r) == [exc |-> cls, response |-> r]

TransportOutcomes ==
    {Outcome(cls, NoResponse) : cls \in {"Timeout", "ConnectionError", "RuntimeError"}}
    \cup {Outcome("", Response(st, b)) : st \in Statuses, b \in Bodies}

\* ---------------------------------------------------------------- the state

VARIABLES
    pc,            \* "idle", "entry", "loop", "response", "except", "done",
                   \* and "shown" once the harness has rendered the result
    basic_prompt,  \* argument of optimize_prompt
    api_key,       \* argument of optimize_prompt
    attempt,       \* the loop variable, 0-based
    response,      \* the response of the current attempt
    exc,           \* class of the exception in flight, "" when none
    requests,      \* number of requests.post calls of this invocation
    sleeps,        \* the time.sleep arguments of this invocation, in order
    hist,          \* per attempt: what requests.post did (class or status)
    result,        \* the returned value
    secrets_key,   \* st.secrets.get("GEMINI_API_KEY")
    environ_key,   \* os.environ.get("GEMINI_API_KEY")
    optimized_prompt,  \* st.session_state.optimized_prompt
    copy_offered,  \* whether the last script run rendered the copy button
    prev           \* an earlier, finished call: its arguments and what it did

\* The state around a call of optimize_prompt, which the call leaves alone.
harness == <<secrets_key, environ_key, optimized_prompt, copy_offered, prev>>

vars ==
    <<pc, basic_prompt, api_key, attempt, response, exc, requests, sleeps,
      hist, result, secrets_key, environ_key, optimized_prompt, copy_offered,
      prev>>

\* No earlier call remembered.
NoCall ==
    [valid |-> FALSE, basic_prompt |-> Str(<<>>), api_key |-> None,
     hist |-> <<>>, requests |-> 0, sleeps |-> <<>>, result |-> NoResult]

Init ==
    /\ pc = "idle"
    /\ basic_prompt = Str(<<>>)
    /\ api_key = None
    /\ attempt = 0
    /\ response = NoResponse
    /\ exc = ""
    /\ requests = 0
    /\ sleeps = <<>>
    /\ hist = <<>>
    /\ result = NoResult
    /\ secrets_key = None
    /\ environ_key = None
    /\ optimized_prompt = <<>>
    /\ copy_offered = FALSE
    /\ prev = NoCall

\* What a piece of the function does next: return a value, raise, or sleep
\* and continue with the next attempt.
Return(r) == [op |-> "return", result |-> r, cls |-> "", wait |-> 0]
Throw(cls) == [op |-> "raise", result |-> NoResult, cls |-> cls, wait |-> 0]
SleepContinue(w) == [op |-> "continue", result |-> NoResult, cls |-> "", wait |-> w]

\* The effect of such a step on the state.
Apply(step) ==
    /\ pc' = CASE step.op = "return" -> "done"
               [] step.op = "raise" -> "except"
               [] step.op = "continue" -> "loop"
    /\ result' = IF step.op = "return" THEN step.result ELSE result
    /\ exc' = IF step.op = "raise" THEN step.cls ELSE ""
    /\ sleeps' = IF step.op = "continue" THEN Append(sleeps, step.wait) ELSE sleeps
    /\ attempt' = IF step.op = "continue" THEN attempt + 1 ELSE attempt

\* Variant: the loop variable kept from the previous call, as a module-level
\* counter would be.
Enter_KeepsAttempt(u, k) ==
    /\ pc' = "entry"
    /\ basic_prompt' = u
    /\ api_key' = k
    /\ attempt' = attempt
    /\ response' = NoResponse
    /\ exc' = ""
    /\ requests' = 0
    /\ sleeps' = <<>>
    /\ hist' = <<>>
    /\ result' = NoResult

\* Entry into optimize_prompt(basic_prompt, api_key): fresh locals.
Enter(u, k) ==
    /\ pc' = "entry"
    /\ basic_prompt' = u
    /\ api_key' = k
    /\ attempt' = 0
    /\ response' = NoResponse
    /\ exc' = ""
    /\ requests' = 0
    /\ sleeps' = <<>>
    /\ hist' = <<>>
    /\ result' = NoResult

\* A caller calls optimize_prompt(basic_prompt, api_key).
Call(u, k) ==
    /\ pc \in {"idle", "done"}
    /\ Enter(u, k)
    /\ UNCHANGED harness

\* Lines 44-50: the two checks made before any network activity.
CheckInputs ==
    /\ pc = "entry"
    /\ IF Falsy(basic_prompt)
       THEN Apply(Return(Result("InputMissing", 0, None)))
       ELSE IF Falsy(api_key)
            THEN Apply(Return(Result("CredentialMissing", 0, None)))
            ELSE /\ pc' = "loop"
                 /\ UNCHANGED <<result, exc, sleeps, attempt>>
    /\ UNCHANGED <<basic_prompt, api_key, response, requests, hist>>
    /\ UNCHANGED harness

\* Lines 68-76 and 137: the loop head.  While attempts remain the request is
\* posted; when range(MAX_RETRIES) is used up the function returns.
ForLoop ==
    /\ pc = "loop"
    /\ IF attempt < MAX_RETRIES
       THEN \E o \in TransportOutcomes :
                /\ requests' = requests + 1
                /\ hist' = Append(hist, [exc |-> o.exc, status |-> o.response.status])
                /\ response' = o.response
                /\ exc' = o.exc
                /\ pc' = IF o.exc = "" THEN "response" ELSE "except"
                /\ UNCHANGED <<result, sleeps, attempt>>
       ELSE /\ Apply(Return(Result("ExhaustedRetries", 0, None)))
            /\ UNCHANGED <<requests, hist, response>>
    /\ UNCHANGED <<basic_prompt, api_key>>
    /\ UNCHANGED harness

\* Variant: the 429 retry left out, every failed status returns at once.
HttpErrorBranch_NoRetry(r) ==
    \E parsed \in {json(r)} :
    \E error_details \in
           {IF IsExc(parsed) /\ IsJSONDecodeError(parsed.v)
            THEN Dict(<< <<"message", Str(r.body.v)>> >>)
            ELSE parsed} :
    \E error \in {PyGet(error_details, "error", Dict(<<>>))} :
    \E message \in {PyGet(error, "message", DEFAULT_MESSAGE)} :
        IF IsExc(error_details) THEN Apply(Throw(error_details.v))
        ELSE IF IsExc(message) THEN Apply(Throw(message.v))
        ELSE Apply(Return(Result("HttpError", r.status, message)))

\* Variant: the 429 bound written `attempt < MAX_RETRIES`, so that a 429 on
\* the last attempt sleeps and lets the loop run out.
HttpErrorBranch_OffByOne(r) ==
    \E parsed \in {json(r)} :
    \E error_details \in
           {IF IsExc(parsed) /\ IsJSONDecodeError(parsed.v)
            THEN Dict(<< <<"message", Str(r.body.v)>> >>)
            ELSE parsed} :
    \E error \in {PyGet(error_details, "error", Dict(<<>>))} :
    \E message \in {PyGet(error, "message", DEFAULT_MESSAGE)} :
        IF IsExc(error_details) THEN Apply(Throw(error_details.v))
        ELSE IF r.status = 429 /\ attempt < MAX_RETRIES
             THEN Apply(SleepContinue(wait_time(attempt)))
        ELSE IF IsExc(message) THEN Apply(Throw(message.v))
        ELSE Apply(Return(Result("HttpError", r.status, message)))

\* Lines 79-96: the branch taken when response.ok is false.  Each local of
\* the code is bound once, in the order the code computes it.
HttpErrorBranch(r) ==
    \E parsed \in {json(r)} :
    \E error_details \in
           {IF IsExc(parsed) /\ IsJSONDecodeError(parsed.v)
            THEN Dict(<< <<"message", Str(r.body.v)>> >>)
            ELSE parsed} :
    \E error \in {PyGet(error_details, "error", Dict(<<>>))} :
    \E message \in {PyGet(error, "message", DEFAULT_MESSAGE)} :
        IF IsExc(error_details) THEN Apply(Throw(error_details.v))
        ELSE IF r.status = 429 /\ attempt < MAX_RETRIES - 1
             THEN Apply(SleepContinue(wait_time(attempt)))
        ELSE IF IsExc(message) THEN Apply(Throw(message.v))
        ELSE Apply(Return(Result("HttpError", r.status, message)))

HttpError ==
    /\ pc = "response"
    /\ ~ok(response)
    /\ HttpErrorBranch(response)
    /\ UNCHANGED <<basic_prompt, api_key, response, requests, hist>>
    /\ UNCHANGED harness

\* Variant: the emptiness test without strip() (`optimized_text == ""`).
ExtractBranch_NoStrip(r) ==
    \E result_json \in {json(r)} :
    \E candidates \in {PyGet(result_json, "candidates", List(<<Dict(<<>>)>>))} :
    \E candidate \in {PyIndex0(candidates)} :
    \E content \in {PyGet(candidate, "content", Dict(<<>>))} :
    \E parts \in {PyGet(content, "parts", List(<<Dict(<<>>)>>))} :
    \E part \in {PyIndex0(parts)} :
    \E optimized_text \in {PyGet(part, "text", None)} :
    \E stripped \in {PyStrip(optimized_text)} :
        IF IsExc(optimized_text) THEN Apply(Throw(optimized_text.v))
        ELSE IF optimized_text = None
             THEN Apply(Return(Result("MalformedResponse", 0, None)))
        ELSE IF IsExc(stripped) THEN Apply(Throw(stripped.v))
        ELSE IF optimized_text = Str(<<>>)
             THEN Apply(Return(Result("EmptyContent", 0, None)))
        ELSE Apply(Return(Result("Success", 0, optimized_text)))

\* Variant: the stripped text returned in place of optimized_text.
ExtractBranch_ReturnsStripped(r) ==
    \E result_json \in {json(r)} :
    \E candidates \in {PyGet(result_json, "candidates", List(<<Dict(<<>>)>>))} :
    \E candidate \in {PyIndex0(candidates)} :
    \E content \in {PyGet(candidate, "content", Dict(<<>>))} :
    \E parts \in {PyGet(content, "parts", List(<<Dict(<<>>)>>))} :
    \E part \in {PyIndex0(parts)} :
    \E optimized_text \in {PyGet(part, "text", None)} :
    \E stripped \in {PyStrip(optimized_text)} :
        IF IsExc(optimized_text) THEN Apply(Throw(optimized_text.v))
        ELSE IF optimized_text = None
             THEN Apply(Return(Result("MalformedResponse", 0, None)))
        ELSE IF IsExc(stripped) THEN Apply(Throw(stripped.v))
        ELSE IF stripped = Str(<<>>)
             THEN Apply(Return(Result("EmptyContent", 0, None)))
        ELSE Apply(Return(Result("Success", 0, stripped)))

\* Lines 100-118: the processing of a response whose ok is true.
ExtractBranch(r) ==
    \E result_json \in {json(r)} :
    \E candidates \in {PyGet(result_json, "candidates", List(<<Dict(<<>>)>>))} :
    \E candidate \in {PyIndex0(candidates)} :
    \E content \in {PyGet(candidate, "content", Dict(<<>>))} :
    \E parts \in {PyGet(content, "parts", List(<<Dict(<<>>)>>))} :
    \E part \in {PyIndex0(parts)} :
    \E optimized_text \in {PyGet(part, "text", None)} :
    \E stripped \in {PyStrip(optimized_text)} :
        IF IsExc(optimized_text) THEN Apply(Throw(optimized_text.v))
        ELSE IF optimized_text = None
             THEN Apply(Return(Result("MalformedResponse", 0, None)))
        ELSE IF IsExc(stripped) THEN Apply(Throw(stripped.v))
        ELSE IF stripped = Str(<<>>)
             THEN Apply(Return(Result("EmptyContent", 0, None)))
        ELSE Apply(Return(Result("Success", 0, optimized_text)))

Extract ==
    /\ pc = "response"
    /\ ok(response)
    /\ ExtractBranch(response)
    /\ UNCHANGED <<basic_prompt, api_key, response, requests, hist>>
    /\ UNCHANGED harness

\* Variant: the bound written `attempt < MAX_RETRIES`, one retry too many.
TimeoutBranch_OffByOne ==
    IF attempt < MAX_RETRIES
    THEN Apply(SleepContinue(wait_time(attempt)))
    ELSE Apply(Return(Result("Timeout", 0, None)))

\* Lines 120-128: except requests.exceptions.Timeout.
TimeoutBranch ==
    IF attempt < MAX_RETRIES - 1
    THEN Apply(SleepContinue(wait_time(attempt)))
    ELSE Apply(Return(Result("Timeout", 0, None)))

ExceptTimeout ==
    /\ pc = "except"
    /\ ExceptClause(exc) = "Timeout"
    /\ TimeoutBranch
    /\ UNCHANGED <<basic_prompt, api_key, response, requests, hist>>
    /\ UNCHANGED harness

\* Lines 130-132: except requests.exceptions.RequestException.
ExceptRequestException ==
    /\ pc = "except"
    /\ ExceptClause(exc) = "RequestException"
    /\ Apply(Return(Result("NetworkError", 0, None)))
    /\ UNCHANGED <<basic_prompt, api_key, response, requests, hist>>
    /\ UNCHANGED harness

\* Lines 133-135: except Exception.
ExceptException ==
    /\ pc = "except"
    /\ ExceptClause(exc) = "Exception"
    /\ Apply(Return(Result("UnexpectedException", 0, None)))
    /\ UNCHANGED <<basic_prompt, api_key, response, requests, hist>>
    /\ UNCHANGED harness

Next ==
    \/ \E u \in Prompts, k \in ApiKeys : Call(u, k)
    \/ CheckInputs
    \/ ForLoop
    \/ HttpError
    \/ Extract
    \/ ExceptTimeout
    \/ ExceptRequestException
    \/ ExceptException

Spec == Init /\ [][Next]_vars

\* The call runs to completion: no step of optimize_prompt waits on anything
\* but the blocking post and sleep, which return.
Running == pc \in {"entry", "loop", "response", "except"}
Step == Running /\ Next
FairSpec == Spec /\ WF_vars(Step)

TypeOK ==
    /\ pc \in {"idle", "entry", "loop", "response", "except", "done", "shown"}
    /\ attempt \in 0..MAX_RETRIES
    /\ requests \in 0..MAX_RETRIES
    /\ result.kind \in ResultKinds \cup {"none"}

\* ------------------------------------------------- credential resolution
\* A caller that resolves the credential with get_api_key (line 152) and
\* passes it to optimize_prompt (line 176), for any content of the secret
\* store and of the environment.
ResolveAndCall(u, s, e) ==
    /\ pc \in {"idle", "done"}
    /\ secrets_key' = s
    /\ environ_key' = e
    /\ Enter(u, get_api_key(s, e))
    /\ UNCHANGED <<optimized_prompt, copy_offered, prev>>

KeyNext ==
    \/ \E u \in Prompts, s \in SecretValues, e \in EnvValues : ResolveAndCall(u, s, e)
    \/ CheckInputs
    \/ ForLoop
    \/ HttpError
    \/ Extract
    \/ ExceptTimeout
    \/ ExceptRequestException
    \/ ExceptException

KeySpec == Init /\ [][KeyNext]_vars

\* --------------------------------------------------------- repeated calls
\* Calls made one after another against a deterministic mock transport: what
\* it does on an attempt is a function of what the attempt ends in, so two
\* calls with the same hist were served the same sequence of outcomes.
MockBody(status) ==
    CASE status = 200 -> Envelope(Str(<<"a">>))
      [] status = 201 -> Envelope(Str(<<" ">>))
      [] status = 304 -> Dict(<<>>)
      [] status = 400 -> List(<<>>)
      [] status = 403 -> ErrorBody(Dict(<< <<"message", Str(<<"a">>)>> >>))
      [] status = 429 -> ErrorBody(Dict(<<>>))
      [] OTHER -> RawText

MockTransport ==
    {o \in TransportOutcomes :
        o.exc # "" \/ o.response.body = MockBody(o.response.status)}

TwinPrompts == {Str(<<>>), Str(<<"a">>)}
TwinKeys == {None, Str(<<"k">>)}

\* The call that has just returned, as a later call may remember it.
Finished ==
    [valid |-> TRUE, basic_prompt |-> basic_prompt, api_key |-> api_key,
     hist |-> hist, requests |-> requests, sleeps |-> sleeps, result |-> result]

\* A further call; the one that just returned is remembered, or an earlier
\* one stays remembered.
TwinCall(u, k) ==
    /\ pc \in {"idle", "done"}
    /\ Enter(u, k)
    /\ prev' \in IF pc = "done" THEN {prev, Finished} ELSE {prev}
    /\ UNCHANGED <<secrets_key, environ_key, optimized_prompt, copy_offered>>

\* The loop head, served by the mock transport.
TwinForLoop ==
    /\ ForLoop
    /\ Outcome(exc', response') \in MockTransport

TwinNext ==
    \/ \E u \in TwinPrompts, k \in TwinKeys : TwinCall(u, k)
    \/ CheckInputs
    \/ TwinForLoop
    \/ HttpError
    \/ Extract
    \/ ExceptTimeout
    \/ ExceptRequestException
    \/ ExceptException

TwinSpec == Init /\ [][TwinNext]_vars

\* ------------------------------------------------------------ the harness
\* The strings optimize_prompt returns, as sequences of characters: the
\* leading words character by character, the rest of the message as one
\* element.
MSG_INPUT_MISSING == <<"P", "l", "e", "a", "s", "e", " ", "e", "n", "t", "e", "r">> \o <<" a basic prompt.">>
MSG_CREDENTIAL_MISSING == <<"E", "R", "R", "O", "R">> \o <<": API Key not configured. ...">>
MSG_API_ERROR == <<"A", "P", "I", " ", "E", "R", "R", "O", "R", " ", "(">>
MSG_MALFORMED == <<"C", "R", "I", "T", "I", "C", "A", "L", " ", "D", "E", "B", "U", "G">> \o <<": Content extraction failed. ...">>
MSG_EMPTY == <<"W", "A", "R", "N", "I", "N", "G">> \o <<": Empty response received. ...">>
MSG_CRITICAL_ERROR == <<"C", "R", "I", "T", "I", "C", "A", "L", " ", "E", "R", "R", "O", "R">>
MSG_EXHAUSTED == <<"E", "R", "R", "O", "R">> \o <<": All optimization attempts failed ...">>

\* The returned string of a result (lines 46, 50, 96, 110, 115, 118, 128,
\* 132, 135, 137).
Message(r) ==
    CASE r.kind = "InputMissing" -> MSG_INPUT_MISSING
      [] r.kind = "CredentialMissing" -> MSG_CREDENTIAL_MISSING
      [] r.kind = "HttpError" -> MSG_API_ERROR \o <<ToString(r.code), "): <message>">>
      [] r.kind = "MalformedResponse" -> MSG_MALFORMED
      [] r.kind = "EmptyContent" -> MSG_EMPTY
      [] r.kind = "Success" -> r.text.v
      [] r.kind = "Timeout" -> MSG_CRITICAL_ERROR \o <<": Request timed out ...">>
      [] r.kind = "NetworkError" -> MSG_CRITICAL_ERROR \o <<": Network connection failed. ...">>
      [] r.kind = "UnexpectedException" ->
             MSG_CRITICAL_ERROR \o <<": Unexpected exception occurred. ...">>
      [] r.kind = "ExhaustedRetries" -> MSG_EXHAUSTED
      [] OTHER -> <<>>

\* str.startswith
startswith(s, prefix) ==
    Len(s) >= Len(prefix) /\ SubSeq(s, 1, Len(prefix)) = prefix

\* Line 192: the condition under which the copy button is rendered.
CopyCondition(optimized_display) ==
    /\ strip(optimized_display) # <<>>
    /\ ~startswith(optimized_display, <<"E", "R", "R", "O", "R">>)
    /\ ~startswith(optimized_display, <<"W", "A", "R", "N", "I", "N", "G">>)
    /\ ~startswith(optimized_display, <<"C", "R", "I", "T", "I", "C", "A", "L", " ", "D", "E", "B", "U", "G">>)
    /\ ~startswith(optimized_display, <<"P", "l", "e", "a", "s", "e", " ", "e", "n", "t", "e", "r">>)

\* Lines 152-169, first script run: the key is resolved, the session state
\* starts empty, the output area shows nothing.
AppInit ==
    /\ pc = "idle"
    /\ secrets_key \in SecretValues
    /\ environ_key \in EnvValues
    /\ api_key = get_api_key(secrets_key, environ_key)
    /\ basic_prompt = Str(<<>>)
    /\ attempt = 0
    /\ response = NoResponse
    /\ exc = ""
    /\ requests = 0
    /\ sleeps = <<>>
    /\ hist = <<>>
    /\ result = NoResult
    /\ optimized_prompt = <<>>
    /\ copy_offered = CopyCondition(<<>>)
    /\ prev = NoCall

\* Lines 172-176: the Generate button, disabled while there is no key, is
\* clicked with u in the prompt area: the stored result is cleared and
\* optimize_prompt is called.
Click(u) ==
    /\ pc \in {"idle", "shown"}
    /\ ~Falsy(api_key)
    /\ optimized_prompt' = <<>>
    /\ Enter(u, api_key)
    /\ UNCHANGED <<secrets_key, environ_key, copy_offered, prev>>

\* Lines 177-195: the returned string is stored in the session state and the
\* script is rerun: the output area shows the stored string and the copy
\* button is rendered or not.
Rerun ==
    /\ pc = "done"
    /\ pc' = "shown"
    /\ optimized_prompt' = Message(result)
    /\ copy_offered' = CopyCondition(optimized_prompt')
    /\ UNCHANGED <<basic_prompt, api_key, attempt, response, exc, requests,
                   sleeps, hist, result, secrets_key, environ_key, prev>>

AppNext ==
    \/ \E u \in Prompts : Click(u)
    \/ CheckInputs
    \/ ForLoop
    \/ HttpError
    \/ Extract
    \/ ExceptTimeout
    \/ ExceptRequestException
    \/ ExceptException
    \/ Rerun

AppSpec == AppInit /\ [][AppNext]_vars

\* =================================================================== claims
\* Vocabulary of the claims, defined on the observable history of a call and
\* independent of the operators the function itself is modelled with.

\* A text that is empty/absent, and one that is empty or only whitespace.
Empty(x) == x.t = "none" \/ (x.t = "str" /\ x.v = <<>>)
Blank(x) == x.t = "none" \/ (x.t = "str" /\ \A i \in 1..Len(x.v) : x.v[i] = " ")

Last(h) == h[Len(h)]
Attempted == hist # <<>>

\* What an attempt ended in.
TimedOut(a) == a.exc = "Timeout"
TransportFailed(a) == a.exc = "ConnectionError"
GotStatus(a) == a.exc = ""
Got429(a) == GotStatus(a) /\ a.status = 429
Got2xx(a) == GotStatus(a) /\ a.status \in 200..299
GotOtherStatus(a) == GotStatus(a) /\ ~Got2xx(a) /\ ~Got429(a)

\* JSON navigation for the path candidates[0].content.parts[0].text.
HasKey(d, k) == d.t = "dict" /\ \E i \in 1..Len(d.v) : d.v[i][1] = k
AtKey(d, k) == d.v[CHOOSE i \in 1..Len(d.v) : d.v[i][1] = k][2]
HasFirst(l) == l.t = "list" /\ Len(l.v) > 0
HasTextPath(b) ==
    /\ HasKey(b, "candidates")
    /\ HasFirst(AtKey(b, "candidates"))
    /\ HasKey(AtKey(b, "candidates").v[1], "content")
    /\ HasKey(AtKey(AtKey(b, "candidates").v[1], "content"), "parts")
    /\ HasFirst(AtKey(AtKey(AtKey(b, "candidates").v[1], "content"), "parts"))
    /\ HasKey(AtKey(AtKey(AtKey(b, "candidates").v[1], "content"), "parts").v[1],
              "text")
TextAt(b) ==
    AtKey(AtKey(AtKey(AtKey(b, "candidates").v[1], "content"), "parts").v[1],
          "text")

\* --- C1 ------------------------------------------------------------------
\* C1: optimize_prompt is total.  Whatever the inputs and whatever each
\* attempt's transport does, a started call reaches its return, and the value
\* returned is one of the classified results; no exception leaves the call.
C1_Total ==
    /\ [](pc = "done" => result.kind \in ResultKinds /\ exc = "")
    /\ (Running ~> pc = "done")

\* A call returned after an exception was raised while the response was
\* being processed.
C1_Witness ==
    /\ pc = "done"
    /\ result.kind = "UnexpectedException"
    /\ Attempted /\ GotStatus(Last(hist))

C3_Original ==
    /\ (pc = "done" /\ Empty(api_key))
           => result.kind = "CredentialMissing" /\ requests = 0
    /\ requests > 0 => ~Empty(basic_prompt) /\ ~Empty(api_key)

\* C3 amended: for an empty or absent credential the call posts nothing and
\* returns CredentialMissing when userText is non-empty (InputMissing when it
\* is empty too); a request is only ever sent with both non-empty.
C3_MissingCredential ==
    /\ (pc # "idle" /\ Empty(api_key))
           => /\ requests = 0
              /\ pc \in {"entry", "done"}
              /\ pc = "done" =>
                     result.kind = IF Empty(basic_prompt)
                                   THEN "InputMissing"
                                   ELSE "CredentialMissing"
    /\ requests > 0 => ~Empty(basic_prompt) /\ ~Empty(api_key)

\* A prompt was given, the credential was absent, CredentialMissing returned.
C3_Witness ==
    /\ pc = "done"
    /\ basic_prompt = Str(<<"a">>)
    /\ api_key = None
    /\ result.kind = "CredentialMissing"

\* --- C4 ------------------------------------------------------------------
\* C4: when every attempt times out the call makes exactly MAX_RETRIES
\* attempts, sleeps 2 s after the first and 4 s after the second, does not
\* sleep after the last, and returns the Timeout failure.
AllTimedOut == Attempted /\ \A i \in 1..Len(hist) : TimedOut(hist[i])

C4_AllTimeouts ==
    AllTimedOut =>
        /\ pc = "loop" => \/ Len(hist) = 1 /\ sleeps = <<2>>
                          \/ Len(hist) = 2 /\ sleeps = <<2, 4>>
        /\ pc = "done" =>
               /\ requests = MAX_RETRIES
               /\ Len(hist) = MAX_RETRIES
               /\ sleeps = <<2, 4>>
               /\ result.kind = "Timeout"

\* Three timeouts in a row, and the call has returned.
C4_Witness ==
    /\ pc = "done"
    /\ AllTimedOut
    /\ requests = 3

\* --- C5 ------------------------------------------------------------------
\* C5: when the first k < MAX_RETRIES attempts each end in HTTP 429 or a
\* timeout the call goes on to attempt k+1, and when that attempt returns
\* HTTP 200 with a non-blank candidates[0].content.parts[0].text the call
\* returns Success with exactly that text after exactly k+1 attempts.
Retryable(a) == TimedOut(a) \/ Got429(a)

C5_RetryThenSuccess ==
    /\ (pc = "done" /\ Attempted /\ Retryable(Last(hist)))
           => Len(hist) = MAX_RETRIES
    /\ \A s \in Texts :
           (/\ pc = "done"
            /\ Attempted
            /\ \A i \in 1..(Len(hist) - 1) : Retryable(hist[i])
            /\ response = Response(200, Envelope(Str(s)))
            /\ ~Blank(Str(s)))
               => /\ result = Result("Success", 0, Str(s))
                  /\ requests = Len(hist)
                  /\ Len(sleeps) = Len(hist) - 1

\* 429, 429, 200 with a text that has surrounding whitespace: Success after
\* three attempts.
C5_Witness ==
    /\ pc = "done"
    /\ Len(hist) = 3
    /\ Got429(hist[1]) /\ Got429(hist[2])
    /\ response = Response(200, Envelope(Str(<<" ", "a">>)))
    /\ result.kind = "Success"
    /\ requests = 3

\* --- C6 ------------------------------------------------------------------
\* C6: a 429 on an attempt before the last is followed by a sleep of
\* 2^attemptNumber seconds and another attempt; a 429 on the last attempt
\* returns HttpError(429) without a sleep.  So 429 on every attempt gives
\* three attempts, sleeps of 2 and 4 seconds, and HttpError(429).
All429 == Attempted /\ \A i \in 1..Len(hist) : Got429(hist[i])

C6_RateLimited ==
    (pc = "done" /\ All429)
        => /\ requests = MAX_RETRIES
           /\ sleeps = <<2, 4>>
           /\ result.kind = "HttpError"
           /\ result.code = 429

\* --- C7 ------------------------------------------------------------------
\* C7: a status that is neither 2xx nor 429, on any attempt, makes the call
\* return HttpError with that status at once: no sleep and no attempt follows.
C7_OtherStatus ==
    (Attempted /\ GotOtherStatus(Last(hist)))
        => /\ pc \in {"response", "except", "done"}
           /\ Len(sleeps) = Len(hist) - 1
           /\ pc = "done" =>
                  /\ result.kind = "HttpError"
                  /\ result.code = Last(hist).status

\* --- C8 ------------------------------------------------------------------
\* C8: a transport exception that is not a timeout, on any attempt, makes the
\* call return NetworkError at once: no sleep and no attempt follows it.
C8_NetworkError ==
    \A i \in 1..Len(hist) :
        TransportFailed(hist[i])
            => /\ i = Len(hist)
               /\ requests = i
               /\ Len(sleeps) = i - 1
               /\ pc \in {"except", "done"}
               /\ pc = "done" => result.kind = "NetworkError"

\* A connection error on the second attempt, after a retried first one.
C8_Witness ==
    /\ pc = "done"
    /\ Len(hist) = 2
    /\ TransportFailed(hist[2])
    /\ result.kind = "NetworkError"

\* --- C9 ------------------------------------------------------------------
\* C9: a 2xx response whose body lacks candidates[0].content.parts[0].text
\* makes the call return MalformedResponse, and no attempt follows.
C9_Malformed ==
    (Attempted /\ Got2xx(Last(hist)) /\ ~HasTextPath(response.body))
        => /\ pc \in {"response", "except", "done"}
           /\ pc = "done" => result.kind = "MalformedResponse"

\* --- C10 -----------------------------------------------------------------
\* C10: a 2xx response whose candidates[0].content.parts[0].text is a str
\* that is empty or only whitespace makes the call return EmptyContent, not
\* MalformedResponse, and no sleep and no attempt follows.
BlankText(b) == HasTextPath(b) /\ TextAt(b).t = "str" /\ Blank(TextAt(b))

C10_EmptyContent ==
    (Attempted /\ Got2xx(Last(hist)) /\ BlankText(response.body))
        => /\ pc \in {"response", "done"}
           /\ requests = Len(hist)
           /\ Len(sleeps) = Len(hist) - 1
           /\ pc = "done" => result.kind = "EmptyContent"

\* A 201 whose text is two spaces was answered with EmptyContent.
C10_Witness ==
    /\ pc = "done"
    /\ Attempted
    /\ response = Response(201, Envelope(Str(<<" ", " ">>)))
    /\ result.kind = "EmptyContent"

\* --- C11 -----------------------------------------------------------------
\* C11: whenever the call returns Success, the text returned is exactly
\* candidates[0].content.parts[0].text of the last attempt's response,
\* unmodified, and it is a str that is neither empty nor only whitespace.
C11_SuccessText ==
    (pc = "done" /\ result.kind = "Success")
        => /\ Attempted /\ GotStatus(Last(hist))
           /\ HasTextPath(response.body)
           /\ result.text = TextAt(response.body)
           /\ result.text.t = "str"
           /\ ~Blank(result.text)

\* A 200 whose text has a leading blank came back as that very text.
C11_Witness ==
    /\ pc = "done"
    /\ response = Response(200, Envelope(Str(<<" ", "a">>)))
    /\ result = Result("Success", 0, Str(<<" ", "a">>))

\* --- C12 -----------------------------------------------------------------
\* C12: a 2xx response is never followed by another attempt: the call returns
\* on that attempt with Success, MalformedResponse or EmptyContent, without a
\* sleep and without a further request.
C12_NoRetryAfter2xx ==
    \A i \in 1..Len(hist) :
        Got2xx(hist[i])
            => /\ i = Len(hist)
               /\ requests = i
               /\ Len(sleeps) = i - 1
               /\ pc \in {"response", "except", "done"}
               /\ pc = "done" =>
                      result.kind \in {"Success", "MalformedResponse", "EmptyContent"}

\* --- C13 -----------------------------------------------------------------
\* C13: a call posts at most MAX_RETRIES requests, every attempt number is in
\* 1..MAX_RETRIES, and its sleeps add up to at most
\* 2^1 + 2^2 + 2^(MAX_RETRIES-1) seconds.
RECURSIVE Sum(_)
Sum(q) == IF q = <<>> THEN 0 ELSE Head(q) + Sum(Tail(q))

C13_Bounded ==
    /\ requests <= MAX_RETRIES
    /\ Len(hist) = requests
    /\ (attempt + 1) \in 1..MAX_RETRIES
    /\ Sum(sleeps) <= 2 ^ 1 + 2 ^ 2 + 2 ^ (MAX_RETRIES - 1)

\* The longest call: three requests and both sleeps.
C13_Witness ==
    /\ pc = "done"
    /\ requests = 3
    /\ attempt + 1 = 3
    /\ Sum(sleeps) = 6

\* --- C16 -----------------------------------------------------------------
\* C16: attempt n+1 is posted only after attempt n ended in a timeout or a
\* 429 with n < MAX_RETRIES, and exactly one sleep, of 2^n seconds, lies
\* between the two, whichever of the two kinds each earlier failure was.
\* Nothing is posted after any other outcome.
C16_RetryPolicy ==
    /\ \A n \in 1..(Len(hist) - 1) :
           /\ Retryable(hist[n])
           /\ n < MAX_RETRIES
           /\ sleeps[n] = 2 ^ n
    /\ Len(sleeps) = IF pc = "loop" THEN Len(hist)
                     ELSE IF Attempted THEN Len(hist) - 1 ELSE 0
    /\ (pc = "loop" /\ Attempted)
           => Retryable(Last(hist)) /\ sleeps[Len(hist)] = 2 ^ Len(hist)

\* A timeout, then a 429, then a third attempt: sleeps of 2 and 4 seconds.
C16_Witness ==
    /\ Len(hist) = 3
    /\ TimedOut(hist[1])
    /\ Got429(hist[2])
    /\ sleeps = <<2, 4>>

\* --- C17 -----------------------------------------------------------------
\* C17 as stated, on each run of MAX_RETRIES attempts that all end in a
\* timeout or a 429: the loop ends without an early return and the call
\* returns ExhaustedRetries.
AllRetryable == Attempted /\ \A i \in 1..Len(hist) : Retryable(hist[i])

C17_Original ==
    (pc = "done" /\ AllRetryable /\ Len(hist) = MAX_RETRIES)
        => result.kind = "ExhaustedRetries"

\* C17 amended: ExhaustedRetries is never returned.  The loop never runs
\* out: on the last attempt a timeout returns Timeout and a 429 returns from
\* the HTTP failure branch, so no sequence of outcomes, of retryable ones or
\* of others, produces it.
C17_Unreachable ==
    /\ result.kind # "ExhaustedRetries"
    /\ attempt < MAX_RETRIES
    /\ (pc = "done" /\ AllRetryable /\ Len(hist) = MAX_RETRIES)
           => IF TimedOut(Last(hist))
              THEN result.kind = "Timeout"
              ELSE result.kind \in {"HttpError", "UnexpectedException"}

\* Timeout, timeout, 429: retries used up, and the result is the HTTP failure.
C17_Witness ==
    /\ pc = "done"
    /\ Len(hist) = 3
    /\ TimedOut(hist[1]) /\ TimedOut(hist[2]) /\ Got429(hist[3])
    /\ result.kind = "HttpError"

\* --- C18 -----------------------------------------------------------------
\* C18: for a response that is neither 2xx nor 429 the result is HttpError
\* with the response's status whatever the shape of the body, with the
\* default message when the body has no error.message.
HasErrorMessage(b) ==
    /\ HasKey(b, "error")
    /\ HasKey(AtKey(b, "error"), "message")

C18_BodyIndependent ==
    (pc = "done" /\ Attempted /\ GotOtherStatus(Last(hist)))
        => /\ result.kind = "HttpError"
           /\ result.code = response.status
           /\ ~HasErrorMessage(response.body) => result.text = DEFAULT_MESSAGE

\* --- C14 -----------------------------------------------------------------
\* C14: a call and an earlier call with the same userText and credential,
\* served the same sequence of transport outcomes, return the same
\* classification after the same number of attempts and the same sleeps,
\* whatever calls were made before or in between.
RECURSIVE IsPrefix(_, _)
IsPrefix(p, q) ==
    \/ p = <<>>
    \/ q # <<>> /\ Head(p) = Head(q) /\ IsPrefix(Tail(p), Tail(q))

\* The two calls consumed the same outcomes, as far as each of them went.
SameRun ==
    /\ prev.valid
    /\ prev.basic_prompt = basic_prompt
    /\ prev.api_key = api_key
    /\ IsPrefix(prev.hist, hist) \/ IsPrefix(hist, prev.hist)

C14_Deterministic ==
    (pc = "done" /\ SameRun)
        => /\ prev.result.kind = result.kind
           /\ prev.result.code = result.code
           /\ prev.requests = requests
           /\ prev.sleeps = sleeps

\* A timeout, a 429 and a 200, twice over, with the same Success each time.
C14_Witness ==
    /\ pc = "done"
    /\ SameRun
    /\ requests = 3
    /\ TimedOut(hist[1]) /\ Got429(hist[2])
    /\ result.kind = "Success"

\* --- C15 -----------------------------------------------------------------
\* C15 as stated: get_api_key gives the secret-store value when that is
\* non-empty and the environment variable's value otherwise; when neither is
\* non-empty the credential is empty or absent and the call made with it
\* returns CredentialMissing.
C15_Original ==
    /\ pc # "idle" =>
           api_key = IF ~Empty(secrets_key) THEN secrets_key ELSE environ_key
    /\ (pc = "done" /\ Empty(secrets_key) /\ Empty(environ_key))
           => Empty(api_key) /\ result.kind = "CredentialMissing"

\* C15 amended: the same priority order; when neither source is non-empty
\* the credential is empty or absent, and the call made with it posts nothing
\* and returns CredentialMissing when userText is non-empty (InputMissing
\* when userText is empty, since that check comes first).
C15_KeyPriority ==
    /\ pc # "idle" =>
           api_key = IF ~Empty(secrets_key) THEN secrets_key ELSE environ_key
    /\ (pc = "done" /\ Empty(secrets_key) /\ Empty(environ_key))
           => /\ Empty(api_key)
              /\ requests = 0
              /\ result.kind = IF Empty(basic_prompt)
                               THEN "InputMissing"
                               ELSE "CredentialMissing"

\* An empty secret and no environment variable: the prompt was turned down
\* for its missing credential.
C15_Witness ==
    /\ pc = "done"
    /\ secrets_key = Str(<<>>)
    /\ environ_key = None
    /\ basic_prompt = Str(<<"a">>)
    /\ result.kind = "CredentialMissing"

\* --- C19 -----------------------------------------------------------------
\* C19: once the harness has shown a result, the copy button is offered
\* exactly when the result is a Success text; it is offered for none of the
\* failure results.
C19_CopyIffSuccess ==
    pc = "shown" => (copy_offered <=> result.kind = "Success")

====
